---- MODULE Spec2Model ----
(***************************************************************************)
(* A model of src/utils.cc (namespace utils): bits_to_bytes, crack_seeds,  *)
(* find_valid_seeds, shift_bits, extract_payload and extract_files.        *)
(*                                                                         *)
(* The seed space and the unsigned width of the seed search are scaled     *)
(* from 32 bits to SeedBits bits, the double used for the range            *)
(* boundaries to a binary float of DoubleMant mantissa bits, and the       *)
(* 1,000,000-seed progress batch to Batch seeds.  All unsigned arithmetic  *)
(* wraps modulo the scaled width, as uint32_t arithmetic does.             *)
(***************************************************************************)
EXTENDS Integers, Sequences, FiniteSets, TLC

(***************************************************************************)
(* Arithmetic helpers                                                      *)
(***************************************************************************)

Pow2(k) == 2 ^ k

\* floor(log2(num/den)) for a rational num/den >= 1
RECURSIVE FloorLog2(_, _)
FloorLog2(num, den) == IF num < 2 * den THEN 0 ELSE 1 + FloorLog2(num, 2 * den)

\* Round-half-to-even of the rational n/d to an integer
RoundHalfEven(n, d) ==
  LET q == n \div d
      r == n % d
  IN  IF 2 * r > d \/ (2 * r = d /\ q % 2 = 1) THEN q + 1 ELSE q

(***************************************************************************)
(* bits_to_bytes                                                           *)
(***************************************************************************)

\* Mantissa bits of a float, to which bits_to_bytes casts its argument
FloatMant == 24

\* (float)n for an unsigned n: exact below 2^FloatMant, otherwise rounded
\* to FloatMant significant bits, ties to even
ToFloat(n) ==
  IF n < Pow2(FloatMant) THEN n
  ELSE LET ulp == Pow2(FloorLog2(n, 1) - FloatMant + 1)
       IN  RoundHalfEven(n, ulp) * ulp

\* utils.cc:17-21: ceil((float)num_bits / 8).  Dividing a float by 8 is
\* exact, so the ceiling is taken of ToFloat(num_bits)/8.
bits_to_bytes(num_bits) == (ToFloat(num_bits) + 7) \div 8

(***************************************************************************)
(* shift_bits                                                              *)
(***************************************************************************)

\* Bit k of a byte, and the byte with bit k set to v
BitOf(byte, k) == (byte \div Pow2(k)) % 2
WithBit(byte, k, v) == byte - BitOf(byte, k) * Pow2(k) + v * Pow2(k)

\* Bit i of a byte sequence (bytes are numbered from 0 in the source, from
\* 1 in a sequence)
MemBit(mem, i) == BitOf(mem[(i \div 8) + 1], i % 8)

\* utils.cc:101-103, the body of shift_bits' loop for index i:
\* bit i of the buffer becomes bit i+1
ShiftBody(mem, i) ==
  LET next_bit == MemBit(mem, i + 1)
  IN  [mem EXCEPT ![(i \div 8) + 1] = WithBit(@, i % 8, next_bit)]

\* Width of uint64_t in the model of shift_bits' loop bound
Uint64Bits == 12

\* utils.cc:99: i < num_bits-1, the int i converted to uint64_t and
\* num_bits-1 computed in uint64_t
ShiftContinues(i, num_bits) == i < (num_bits - 1) % Pow2(Uint64Bits)

\* shift_bits run to its end on a buffer that holds all num_bits bits,
\* for num_bits >= 1
RECURSIVE ShiftFrom(_, _, _)
ShiftFrom(mem, i, num_bits) ==
  IF ShiftContinues(i, num_bits) THEN ShiftFrom(ShiftBody(mem, i), i + 1, num_bits)
  ELSE mem

(***************************************************************************)
(* find_valid_seeds / crack_seeds: the scaled machine                      *)
(***************************************************************************)

\* Width of uint32_t (seeds, counters) in the scaled seed search
SeedBits == 3

\* Mantissa bits the scaled double has beyond SeedBits (a double has 53
\* mantissa bits for 32-bit seeds)
ExtraMant == 4

\* Largest worker count explored
MaxThreads == 2

\* Largest number of seeds whose derived bits start with the magic signature
MaxMagic == 2

\* Progress batch: 1000000 in the source, scaled
Batch == 2

\* Size of the fixed metadata header in bits
HeaderBits == 65

SeedSpace == Pow2(SeedBits)
UINT32_MAX == SeedSpace - 1
INT_MAX == Pow2(SeedBits - 1) - 1
Seeds == 0 .. UINT32_MAX
DoubleMant == SeedBits + ExtraMant

\* A double is held as an integer count of 2^-DoubleMant units
FracUnit == Pow2(DoubleMant)

\* The nearest double (DoubleMant mantissa bits, ties to even) to the
\* rational num/den, which is 0 or at least 1
FloatRound(num, den) ==
  IF num = 0 THEN 0
  ELSE LET e == FloorLog2(num, den)
           ulp == Pow2(e + 1)       \* in 2^-DoubleMant units
           sh == DoubleMant - e - 1
           n == IF sh >= 0 THEN num * Pow2(sh) ELSE num
           d == IF sh >= 0 THEN den ELSE den * Pow2(0 - sh)
       IN  RoundHalfEven(n, d) * ulp

\* (double)UINT32_MAX / num_threads, for num_threads >= 1
seeds_per_thread(n) == FloatRound(UINT32_MAX, n)

\* (uint32_t)(k * seeds_per_thread): the int is converted to double, the
\* product rounded to a double and truncated toward zero
Boundary(k, n) == (FloatRound(k * seeds_per_thread(n), FracUnit) \div FracUnit) % SeedSpace

\* utils.cc:68-69
start_seed(i, n) == Boundary(i, n)
end_seedOverlap(i, n) == (Boundary(i + 1, n) + 1) % SeedSpace
end_seed(i, n) == Boundary(i + 1, n)

BitsLens == {HeaderBits - 1, 3 * HeaderBits}
ThreadCounts == {-1, 0} \cup (1 .. (IF MaxThreads < INT_MAX THEN MaxThreads ELSE INT_MAX))
Workers == 0 .. (MaxThreads - 1)

VARIABLES
  bitsLen,          \* bits.size() of the BitSource handed in
  num_threads,      \* find_valid_seeds' num_threads
  magicSeeds,       \* seeds for which Extractor::check_magic() is true
  pcMain,           \* find_valid_seeds' position
  idx,              \* the loop index i of find_valid_seeds' current loop
  thr,              \* per worker: position, start_seed, end_seed, seed
  thread_progress,  \* thread_progress[i]
  thread_results,   \* thread_results[i]
  found_seeds,      \* the merged vector
  tested,           \* per seed: how many Extractors were built for it
  displayed,        \* the progress value the display read last
  bb_pc,            \* bits_to_bytes: "call" before, "ret" after
  bb_num_bits,      \* bits_to_bytes' argument
  bb_result,        \* bits_to_bytes' return value
  sh_pc,            \* shift_bits' position
  sh_bytes,         \* the memory at 'bytes', as a sequence of bytes
  sh_orig,          \* that memory when shift_bits was called
  sh_num_bits,      \* shift_bits' num_bits
  sh_i,             \* shift_bits' loop index i
  ex_pc,            \* extract_files' position
  ex_bitsLen,       \* bits.size() in extract_files
  ex_seeds,         \* seeds.size()
  ex_i,             \* extract_files' loop index i
  d,                \* the ExtractedData d of the current iteration
  found_data,       \* the vector extract_files returns
  ex_oob            \* a read outside the payload buffer's allocation took place

crackVars == <<bitsLen, num_threads, magicSeeds, pcMain, idx, thr,
               thread_progress, thread_results, found_seeds, tested, displayed>>

bytesVars == <<bb_pc, bb_num_bits, bb_result>>
shiftVars == <<sh_pc, sh_bytes, sh_orig, sh_num_bits, sh_i>>

extractVars == <<ex_pc, ex_bitsLen, ex_seeds, ex_i, d, found_data, ex_oob>>

vars == <<crackVars, bytesVars, shiftVars, extractVars>>

\* The parts of the state a specification of one function leaves idle
IdleCrack ==
  /\ bitsLen = 0 /\ num_threads = 0 /\ magicSeeds = {} /\ pcMain = "idle" /\ idx = 0
  /\ thr = <<>> /\ thread_progress = <<>> /\ thread_results = <<>>
  /\ found_seeds = <<>> /\ tested = <<>> /\ displayed = 0
IdleBytes == bb_pc = "idle" /\ bb_num_bits = 0 /\ bb_result = 0
IdleShift == sh_pc = "idle" /\ sh_bytes = <<>> /\ sh_orig = <<>> /\ sh_num_bits = 0 /\ sh_i = 0
IdleExtract ==
  /\ ex_pc = "idle" /\ ex_bitsLen = 0 /\ ex_seeds = 0 /\ ex_i = 0 /\ d = <<>>
  /\ found_data = <<>> /\ ex_oob = FALSE

NotStarted == [pc |-> "none", start |-> 0, end |-> 0, seed |-> 0]

InitCrack ==
  /\ bitsLen \in BitsLens
  /\ num_threads \in ThreadCounts
  /\ magicSeeds \in {S \in SUBSET Seeds : Cardinality(S) <= MaxMagic}
  /\ pcMain = "spawn"
  /\ idx = 0
  /\ thr = [w \in Workers |-> NotStarted]
  /\ thread_progress = [w \in Workers |-> 0]
  /\ thread_results = [w \in Workers |-> <<>>]
  /\ found_seeds = <<>>
  /\ tested = [s \in Seeds |-> 0]
  /\ displayed = 0
  /\ IdleBytes /\ IdleShift /\ IdleExtract

\* utils.cc:54-61: the arrays have num_threads elements; a negative bound
\* is undefined
NegativeArrayBound ==
  /\ pcMain = "spawn"
  /\ num_threads < 0
  /\ pcMain' = "undefined"
  /\ UNCHANGED <<bytesVars, shiftVars, extractVars, bitsLen, num_threads, magicSeeds, idx, thr, thread_progress,
                 thread_results, found_seeds, tested, displayed>>

\* utils.cc:66-72, one iteration: start thread i on [start_seed, end_seed)
SpawnThread ==
  /\ pcMain = "spawn"
  /\ num_threads >= 0
  /\ idx < num_threads
  /\ thr' = [thr EXCEPT ![idx] = [pc |-> "loop",
                                  start |-> start_seed(idx, num_threads),
                                  end |-> end_seed(idx, num_threads),
                                  seed |-> start_seed(idx, num_threads)]]
  /\ idx' = idx + 1
  /\ UNCHANGED <<bytesVars, shiftVars, extractVars, bitsLen, num_threads, magicSeeds, pcMain, thread_progress,
                 thread_results, found_seeds, tested, displayed>>

\* utils.cc:75: the spawn loop is over, the progress bar starts
CreateProgressBar ==
  /\ pcMain = "spawn"
  /\ num_threads >= 0
  /\ idx >= num_threads
  /\ pcMain' = "display"
  /\ UNCHANGED <<bytesVars, shiftVars, extractVars, bitsLen, num_threads, magicSeeds, idx, thr, thread_progress,
                 thread_results, found_seeds, tested, displayed>>

\* The display polls one worker's counter, without synchronisation: the
\* read races with the worker's writes and may return the current value or
\* one the counter held earlier
DisplayPoll(w) ==
  /\ pcMain = "display"
  /\ w < num_threads
  /\ displayed' \in {v \in 0 .. thread_progress[w] : v % Batch = 0 \/ v = thread_progress[w]}
  /\ UNCHANGED <<bytesVars, shiftVars, extractVars, bitsLen, num_threads, magicSeeds, pcMain, idx, thr,
                 thread_progress, thread_results, found_seeds, tested>>

\* create_progress_bar returns
DisplayReturn ==
  /\ pcMain = "display"
  /\ pcMain' = "join"
  /\ idx' = 0
  /\ UNCHANGED <<bytesVars, shiftVars, extractVars, bitsLen, num_threads, magicSeeds, thr, thread_progress,
                 thread_results, found_seeds, tested, displayed>>

\* utils.cc:78-81, one iteration: threads[i]->join()
JoinThread ==
  /\ pcMain = "join"
  /\ idx < num_threads
  /\ thr[idx].pc = "done"
  /\ idx' = idx + 1
  /\ UNCHANGED <<bytesVars, shiftVars, extractVars, bitsLen, num_threads, magicSeeds, pcMain, thr, thread_progress,
                 thread_results, found_seeds, tested, displayed>>

\* utils.cc:83: every thread is joined
JoinDone ==
  /\ pcMain = "join"
  /\ idx >= num_threads
  /\ pcMain' = "merge"
  /\ idx' = 0
  /\ UNCHANGED <<bytesVars, shiftVars, extractVars, bitsLen, num_threads, magicSeeds, thr, thread_progress,
                 thread_results, found_seeds, tested, displayed>>

\* utils.cc:86-89, one iteration: append thread_results[i]
MergeAppend == found_seeds' = found_seeds \o thread_results[idx]

MergeResults ==
  /\ pcMain = "merge"
  /\ idx < num_threads
  /\ MergeAppend
  /\ idx' = idx + 1
  /\ UNCHANGED <<bytesVars, shiftVars, extractVars, bitsLen, num_threads, magicSeeds, pcMain, thr, thread_progress,
                 thread_results, tested, displayed>>

\* utils.cc:91: return found_seeds
ReturnSeeds ==
  /\ pcMain = "merge"
  /\ idx >= num_threads
  /\ pcMain' = "done"
  /\ UNCHANGED <<bytesVars, shiftVars, extractVars, bitsLen, num_threads, magicSeeds, idx, thr, thread_progress,
                 thread_results, found_seeds, tested, displayed>>

\* utils.cc:39: the batching test on the seed just processed
BatchDueMutant(seed, start) == ((seed - start) % SeedSpace) % Batch = 0
BatchDue(seed, start) == ((seed - start) % SeedSpace) % Batch = Batch - 1

\* utils.cc:29-43, one iteration of crack_seeds' do-while in worker w
CrackStep(w) ==
  LET t == thr[w]
      next == (t.seed + 1) % SeedSpace
  IN  /\ t.pc = "loop"
      /\ tested' = [tested EXCEPT ![t.seed] = IF @ < 2 THEN @ + 1 ELSE @]
      /\ thread_results' = IF t.seed \in magicSeeds
                           THEN [thread_results EXCEPT ![w] = Append(@, t.seed)]
                           ELSE thread_results
      /\ thread_progress' = IF BatchDue(t.seed, t.start)
                            THEN [thread_progress EXCEPT ![w] = (@ + Batch) % SeedSpace]
                            ELSE thread_progress
      /\ thr' = [thr EXCEPT ![w] = [t EXCEPT !.seed = next,
                                             !.pc = IF next # t.end THEN "loop" ELSE "final"]]
      /\ UNCHANGED <<bytesVars, shiftVars, extractVars, bitsLen, num_threads, magicSeeds, pcMain, idx, found_seeds, displayed>>

\* utils.cc:46: the counter is set to the exact number done
CrackFinish(w) ==
  LET t == thr[w]
  IN  /\ t.pc = "final"
      /\ thread_progress' = [thread_progress EXCEPT ![w] = (t.end - t.start) % SeedSpace]
      /\ thr' = [thr EXCEPT ![w] = [t EXCEPT !.pc = "done"]]
      /\ UNCHANGED <<bytesVars, shiftVars, extractVars, bitsLen, num_threads, magicSeeds, pcMain, idx, thread_results,
                     found_seeds, tested, displayed>>

NextCrack ==
  \/ NegativeArrayBound
  \/ SpawnThread
  \/ CreateProgressBar
  \/ \E w \in Workers : DisplayPoll(w)
  \/ DisplayReturn
  \/ JoinThread
  \/ JoinDone
  \/ MergeResults
  \/ ReturnSeeds
  \/ \E w \in Workers : CrackStep(w)
  \/ \E w \in Workers : CrackFinish(w)

SpecCrack == InitCrack /\ [][NextCrack]_vars

(***************************************************************************)
(* Claims about the seed search                                            *)
(***************************************************************************)

Spawned(w) == w \in Workers /\ w < num_threads /\ thr[w].pc # "none"

\* C1: when find_valid_seeds has returned for a worker count of at least 1,
\* every seed of the seed space was tested against the magic signature by
\* exactly one worker (the ranges are pairwise disjoint and cover the space).
C1_EverySeedTestedOnce ==
  (pcMain = "done" /\ num_threads >= 1) => \A s \in Seeds : tested[s] = 1

StrictlyAscending(q) == \A j \in 1 .. (Len(q) - 1) : q[j] < q[j + 1]

\* C2: for every worker count of at least 1 and every interleaving, the
\* vector find_valid_seeds returns is strictly ascending by seed value, so it
\* holds no duplicates, although nothing sorts it.
C2_MergedAscending ==
  (pcMain = "done" /\ num_threads >= 1) => StrictlyAscending(found_seeds)

\* C2 witness: two workers each found a seed and the merged vector is returned
C2_Witness ==
  /\ pcMain = "done"
  /\ num_threads >= 2
  /\ Len(found_seeds) >= 2
  /\ \E v, w \in Workers : v # w /\ Spawned(v) /\ Spawned(w)
                           /\ thread_results[v] # <<>> /\ thread_results[w] # <<>>

\* C6: with a worker count of 0 or less, or a BitSource shorter than the
\* 65-bit header, the search is rejected at once: no worker thread is
\* started and no seed is tested.
C6_RejectedBeforeSearch ==
  (num_threads <= 0 \/ bitsLen < HeaderBits)
    => /\ \A w \in Workers : thr[w].pc = "none"
       /\ \A s \in Seeds : tested[s] = 0

RangeSize(w) == thr[w].end - thr[w].start

\* C7: at every point a started worker's progress counter is at most the
\* size of its range, and once the worker has finished it equals that size,
\* whatever the batching and the interleaving with the display.
C7_ProgressWithinRange ==
  \A w \in Workers :
    Spawned(w) => /\ thread_progress[w] <= RangeSize(w)
                  /\ thr[w].pc = "done" => thread_progress[w] = RangeSize(w)

\* C7 witness: a worker finished a range that is no multiple of the batch,
\* while another is still scanning with a batch already counted and the
\* display has read a counter
C7_Witness ==
  \E v, w \in Workers :
    /\ Spawned(v) /\ Spawned(w)
    /\ thr[v].pc = "done" /\ RangeSize(v) % Batch # 0
    /\ thread_progress[v] = RangeSize(v)
    /\ thr[w].pc = "loop" /\ thread_progress[w] > 0
    /\ pcMain = "display" /\ displayed > 0

(***************************************************************************)
(* bits_to_bytes as a machine: one call on one argument                    *)
(***************************************************************************)

\* Arguments tried: 0 .. MaxSmallBits, and the values around 2^FloatMant
\* up to MaxPastExact beyond it
MaxSmallBits == 40
MaxPastExact == 24

BytesInputs ==
  (0 .. MaxSmallBits) \cup ((Pow2(FloatMant) - 8) .. (Pow2(FloatMant) + MaxPastExact))

InitBytes ==
  /\ bb_pc = "call"
  /\ bb_num_bits \in BytesInputs
  /\ bb_result = 0
  /\ IdleCrack /\ IdleShift /\ IdleExtract

BitsToBytesCall ==
  /\ bb_pc = "call"
  /\ bb_result' = bits_to_bytes(bb_num_bits)
  /\ bb_pc' = "ret"
  /\ UNCHANGED <<bb_num_bits, crackVars, shiftVars, extractVars>>

NextBytes == BitsToBytesCall

SpecBytes == InitBytes /\ [][NextBytes]_vars

\* C9: bits_to_bytes(n) is the ceiling of n/8 for every unsigned n, with
\* bits_to_bytes(0)=0, bits_to_bytes(1)=1, bits_to_bytes(8)=1 and
\* bits_to_bytes(9)=2.
C9_CeilingOfEighth ==
  bb_pc = "ret" =>
    /\ 8 * bb_result >= bb_num_bits
    /\ 8 * (bb_result - 1) < bb_num_bits
    /\ bb_num_bits = 0 => bb_result = 0
    /\ bb_num_bits \in {1, 8} => bb_result = 1
    /\ bb_num_bits = 9 => bb_result = 2

(***************************************************************************)
(* shift_bits as a machine: one call, one loop iteration per step          *)
(***************************************************************************)

\* Bytes of memory modelled from the address 'bytes' on; an access past
\* them is outside every object the model knows
ShiftMemBytes == 2

ShiftByteVals == {0, 1, 128, 165, 255}

ByteSeqs(n, vals) == [1 .. n -> vals]

InitShift ==
  /\ sh_pc = "loop"
  /\ sh_bytes \in ByteSeqs(ShiftMemBytes, ShiftByteVals)
  /\ sh_orig = sh_bytes
  /\ sh_num_bits \in 0 .. (8 * ShiftMemBytes)
  /\ sh_i = 0
  /\ IdleCrack /\ IdleBytes /\ IdleExtract

\* utils.cc:99-104, one iteration
ShiftIterate ==
  /\ sh_pc = "loop"
  /\ ShiftContinues(sh_i, sh_num_bits)
  /\ (sh_i + 1) \div 8 < Len(sh_bytes)
  /\ sh_bytes' = ShiftBody(sh_bytes, sh_i)
  /\ sh_i' = sh_i + 1
  /\ UNCHANGED <<sh_pc, sh_orig, sh_num_bits, crackVars, bytesVars, extractVars>>

\* utils.cc:101: the loop goes on and bytes[(i+1)/8] lies past the memory
\* modelled: the read is outside the buffer
ShiftOutOfBounds ==
  /\ sh_pc = "loop"
  /\ ShiftContinues(sh_i, sh_num_bits)
  /\ (sh_i + 1) \div 8 >= Len(sh_bytes)
  /\ sh_pc' = "undefined"
  /\ UNCHANGED <<sh_bytes, sh_orig, sh_num_bits, sh_i, crackVars, bytesVars, extractVars>>

\* utils.cc:99,105: the loop condition fails and shift_bits returns
ShiftReturn ==
  /\ sh_pc = "loop"
  /\ ~ ShiftContinues(sh_i, sh_num_bits)
  /\ sh_pc' = "done"
  /\ UNCHANGED <<sh_bytes, sh_orig, sh_num_bits, sh_i, crackVars, bytesVars, extractVars>>

NextShift ==
  \/ ShiftIterate
  \/ ShiftOutOfBounds
  \/ ShiftReturn

SpecShift == InitShift /\ [][NextShift]_vars

ShiftMemBitCount == 8 * Len(sh_bytes)

\* C8: for every buffer and every totalBits >= 0 (0 and 1 included), after
\* shift_bits(buffer, totalBits) bit i is the original bit i+1 for
\* 0 <= i < totalBits-1, bit totalBits-1 keeps its value, and no bit at a
\* position >= totalBits is ever changed.
C8_ShiftContract ==
  /\ sh_pc = "done" =>
       /\ \A i \in 0 .. (sh_num_bits - 2) : MemBit(sh_bytes, i) = MemBit(sh_orig, i + 1)
       /\ sh_num_bits >= 1 =>
            MemBit(sh_bytes, sh_num_bits - 1) = MemBit(sh_orig, sh_num_bits - 1)
  /\ sh_pc # "idle" =>
       \A i \in sh_num_bits .. (ShiftMemBitCount - 1) : MemBit(sh_bytes, i) = MemBit(sh_orig, i)

(***************************************************************************)
(* extract_files / extract_payload                                         *)
(*                                                                         *)
(* uint32_t is SizeBits wide here.  The Extractor (Extractor.hh) is not    *)
(* part of utils.cc: get_data delivers the next bits of the seed's         *)
(* sequence, any bits at all as far as utils.cc can tell.                  *)
(***************************************************************************)

\* Width of uint32_t (payload_size, max_payload_size, content_length)
SizeBits == 8

\* Largest number of candidate seeds handed to extract_files
MaxCands == 2

\* Longest explicit prefix of a buffer's contents; the rest repeats one byte
MaxPrefix == 1

SizeSpace == Pow2(SizeBits)

USub(a, b) == (a - b) % SizeSpace

\* utils.cc:204: (uint32_t)(bits.size() / 3) - 65, in unsigned arithmetic
max_payload_size(len) == USub((len \div 3) % SizeSpace, HeaderBits)

\* utils.cc:220: the test that discards a candidate
MetadataRejected(h, len) ==
  h.payload_size > max_payload_size(len) \/ h.enc_algo > 22 \/ h.version # 0

ExtractBitsLens == {3 * HeaderBits - 1, 3 * HeaderBits + 27, 3 * HeaderBits + 123}
Versions == {0, 1}
EncAlgos == {0, 22, 23}
PayloadSizes == {1, 2, 9, 17, 41}
UncompressedSizes == {0, 24, 40}
ExByteVals == {0, 1, 208}
ZResults == {"Z_OK", "Z_BUF_ERROR", "Z_DATA_ERROR"}

\* Contents a buffer of n bytes may hold: a prefix of at most MaxPrefix
\* bytes, then one byte repeated
Prefixes == UNION {[1 .. k -> ExByteVals] : k \in 0 .. MaxPrefix}
Buffers(n) ==
  {[k \in 1 .. n |-> IF k <= Len(p) THEN p[k] ELSE f] : p \in Prefixes, f \in ExByteVals}

\* A fresh ExtractedData with the header fields of utils.cc:211-217
Header(version, enc_algo, payload_size) ==
  [version |-> version, enc_algo |-> enc_algo, payload_size |-> payload_size,
   is_encrypted |-> (enc_algo # 0),
   is_compressed |-> 0, has_checksum |-> 0,
   filename |-> <<>>, file_contents |-> <<>>, encrypted_payload |-> <<>>,
   \* what happened during decoding, not fields of the record:
   uncompress_ret |-> "none",   \* uncompress' return value, which is dropped
   inflated_all |-> FALSE,      \* uncompress stored the declared byte count
   rest_of_buffer |-> <<>>]     \* the bytes after the filename's null byte
                                \* up to the end of the inflated bytes

\* Index (from 0) of the first null byte of buf at or after off; Len(buf) if none
RECURSIVE FirstNull(_, _)
FirstNull(buf, off) ==
  IF off >= Len(buf) THEN Len(buf)
  ELSE IF buf[off + 1] = 0 THEN off
  ELSE FirstNull(buf, off + 1)

\* utils.cc:160: payload[0] & 1UL
HasChecksum(buf) == BitOf(buf[1], 0)

\* utils.cc:163: shift_bits(payload, payload_size_bytes*8)
Realigned(buf, payload_size_bytes) == ShiftFrom(buf, 0, payload_size_bytes * 8)

\* utils.cc:174: the filename's offset
NameOffset(has_checksum) == IF has_checksum = 1 THEN 4 ELSE 0

\* utils.cc:183: payload + bits_to_bytes(payload_size-2), as an offset
ContentsEnd(payload_size) == bits_to_bytes(USub(payload_size, 2))

\* utils.cc:160-186 on the allocation buf (payload), payload_size_bytes
\* bytes of which are shifted.  The result is d with its fields set when
\* every access stays inside the allocation and the content length does
\* not wrap; in_bounds is FALSE otherwise.
Parse(h, buf, payload_size_bytes) ==
  IF \/ Len(buf) < 1                               \* payload[0]
     \/ payload_size_bytes < 1                     \* shift_bits' bound num_bits-1
     \/ payload_size_bytes > Len(buf)
  THEN [in_bounds |-> FALSE, d |-> h]
  ELSE LET has_checksum == HasChecksum(buf)
           sh == Realigned(buf, payload_size_bytes)
           off == NameOffset(has_checksum)
           nul == FirstNull(sh, off)               \* off + strlen(filename)
           end == ContentsEnd(h.payload_size)
       IN  IF \/ has_checksum = 1 /\ Len(buf) < 4  \* ((uint32_t*)payload)[0]
              \/ nul >= Len(buf)                   \* strlen finds no null byte
              \/ nul + 1 > end                     \* content_length wraps
              \/ end > Len(buf)                    \* contents + content_length
           THEN [in_bounds |-> FALSE, d |-> h]
           ELSE [in_bounds |-> TRUE,
                 d |-> [h EXCEPT !.has_checksum = has_checksum,
                                 !.filename = SubSeq(sh, off + 1, nul),
                                 !.file_contents = SubSeq(sh, nul + 2, end),
                                 !.rest_of_buffer = SubSeq(sh, nul + 2, payload_size_bytes)]]

InitExtract ==
  /\ ex_pc = "loop"
  /\ ex_bitsLen \in ExtractBitsLens
  /\ ex_seeds \in 0 .. MaxCands
  /\ ex_i = 0
  /\ d = <<>>
  /\ found_data = <<>>
  /\ ex_oob = FALSE
  /\ IdleCrack /\ IdleBytes /\ IdleShift

\* utils.cc:206-217: the header of candidate i is decoded
ReadHeader ==
  /\ ex_pc = "loop"
  /\ ex_i < ex_seeds
  /\ \E v \in Versions, a \in EncAlgos, ps \in PayloadSizes : d' = Header(v, a, ps)
  /\ ex_pc' = "filter"
  /\ UNCHANGED <<crackVars, bytesVars, shiftVars, ex_bitsLen, ex_seeds, ex_i, found_data, ex_oob>>

\* utils.cc:220-223: continue
DiscardCandidate ==
  /\ ex_pc = "filter"
  /\ MetadataRejected(d, ex_bitsLen)
  /\ ex_i' = ex_i + 1
  /\ ex_pc' = "loop"
  /\ UNCHANGED <<crackVars, bytesVars, shiftVars, ex_bitsLen, ex_seeds, d, found_data, ex_oob>>

\* utils.cc:116-125: extract_payload on an encrypted candidate
ExtractEncrypted ==
  /\ ex_pc = "filter"
  /\ ~ MetadataRejected(d, ex_bitsLen)
  /\ d.is_encrypted
  /\ \E buf \in Buffers(bits_to_bytes(d.payload_size)) :
       d' = [d EXCEPT !.encrypted_payload = buf]
  /\ ex_pc' = "push"
  /\ UNCHANGED <<crackVars, bytesVars, shiftVars, ex_bitsLen, ex_seeds, ex_i, found_data, ex_oob>>

\* utils.cc:128, 151-186: extract_payload, is_compressed read as 0
ExtractUncompressed ==
  /\ ex_pc = "filter"
  /\ ~ MetadataRejected(d, ex_bitsLen)
  /\ ~ d.is_encrypted
  /\ LET payload_size_bytes == bits_to_bytes(USub(d.payload_size, 1))
     IN  \E buf \in Buffers(payload_size_bytes) :
           LET parsed == Parse(d, buf, payload_size_bytes)
           IN  IF parsed.in_bounds
               THEN /\ d' = parsed.d
                    /\ ex_pc' = "push"
                    /\ UNCHANGED ex_oob
               ELSE /\ ex_oob' = TRUE
                    /\ ex_pc' = "out_of_bounds"
                    /\ UNCHANGED d
  /\ UNCHANGED <<crackVars, bytesVars, shiftVars, ex_bitsLen, ex_seeds, ex_i, found_data>>

\* utils.cc:128, 133-149, 160-186: extract_payload, is_compressed read as 1.
\* uncompress returns ret and stores at most the declared size in
\* payload_size_bytes; its return value is not looked at.  The buffer holds
\* the inflated bytes and, after them, whatever the allocation held.
ExtractCompressed ==
  /\ ex_pc = "filter"
  /\ ~ MetadataRejected(d, ex_bitsLen)
  /\ ~ d.is_encrypted
  /\ \E uncompressed_size \in UncompressedSizes, ret \in ZResults :
       LET declared == bits_to_bytes(uncompressed_size)
       IN  \E payload_size_bytes \in 0 .. declared, buf \in Buffers(declared) :
             LET h == [d EXCEPT !.is_compressed = 1,
                                !.uncompress_ret = ret,
                                !.inflated_all = (payload_size_bytes = declared)]
                 parsed == Parse(h, buf, payload_size_bytes)
             IN  IF parsed.in_bounds
                 THEN /\ d' = parsed.d
                      /\ ex_pc' = "push"
                      /\ UNCHANGED ex_oob
                 ELSE /\ d' = h
                      /\ ex_oob' = TRUE
                      /\ ex_pc' = "out_of_bounds"
  /\ UNCHANGED <<crackVars, bytesVars, shiftVars, ex_bitsLen, ex_seeds, ex_i, found_data>>

\* After a read outside the allocation the process may end ...
OutOfBoundsCrash ==
  /\ ex_pc = "out_of_bounds"
  /\ ex_pc' = "crashed"
  /\ UNCHANGED <<crackVars, bytesVars, shiftVars, ex_bitsLen, ex_seeds, ex_i, d, found_data, ex_oob>>

\* ... or go on with whatever the foreign memory held
OutOfBoundsGarbage ==
  /\ ex_pc = "out_of_bounds"
  /\ \E contents \in {<<>>, <<208>>} : d' = [d EXCEPT !.file_contents = contents]
  /\ ex_pc' = "push"
  /\ UNCHANGED <<crackVars, bytesVars, shiftVars, ex_bitsLen, ex_seeds, ex_i, found_data, ex_oob>>

\* utils.cc:227
PushRecord ==
  /\ ex_pc = "push"
  /\ found_data' = Append(found_data, d)
  /\ ex_i' = ex_i + 1
  /\ ex_pc' = "loop"
  /\ UNCHANGED <<crackVars, bytesVars, shiftVars, ex_bitsLen, ex_seeds, d, ex_oob>>

\* utils.cc:230
ReturnData ==
  /\ ex_pc = "loop"
  /\ ex_i >= ex_seeds
  /\ ex_pc' = "done"
  /\ UNCHANGED <<crackVars, bytesVars, shiftVars, ex_bitsLen, ex_seeds, ex_i, d, found_data, ex_oob>>

NextExtract ==
  \/ ReadHeader
  \/ DiscardCandidate
  \/ ExtractEncrypted
  \/ ExtractUncompressed
  \/ ExtractCompressed
  \/ OutOfBoundsCrash
  \/ OutOfBoundsGarbage
  \/ PushRecord
  \/ ReturnData

SpecExtract == InitExtract /\ [][NextExtract]_vars

(***************************************************************************)
(* Claims about extract_files and extract_payload                          *)
(***************************************************************************)

\* The metadata invariants of a real embedded file, in plain integers
ValidMetadata(h) ==
  /\ h.version = 0
  /\ h.enc_algo <= 22
  /\ h.payload_size <= (ex_bitsLen \div 3) - HeaderBits

Records == {found_data[k] : k \in 1 .. Len(found_data)}

\* The BitSource has room for the 65-bit header (three carrier bits each)
HoldsHeader == ex_bitsLen \div 3 >= HeaderBits

\* C3: extract_files returns a record only for a candidate whose header has
\* version = 0, encAlgo <= 22 and payloadSizeBits <= floor(|BitSource|/3) - 65,
\* whatever the BitSource's length; for any other candidate extract_payload
\* is not run and no record is appended.
C3_OnlyValidMetadataExtracted ==
  /\ ex_pc \in {"push", "out_of_bounds", "crashed"} => ValidMetadata(d)
  /\ \A r \in Records : ValidMetadata(r)

\* C4: for an accepted unencrypted candidate whose compressed data inflates
\* to the declared L bytes, the contents extract_payload yields are all the
\* bytes after the filename's null byte up to the end of the L inflated
\* bytes, whatever the length of the compressed data.  (Stated for
\* BitSources that hold the header and runs without an out-of-bounds read.)
C4_CompressedContentsComplete ==
  (HoldsHeader /\ ~ ex_oob) =>
    \A r \in Records :
      (r.is_compressed = 1 /\ r.uncompress_ret = "Z_OK" /\ r.inflated_all)
        => r.file_contents = r.rest_of_buffer

\* C5: when decompression fails (uncompress does not return Z_OK, or stores
\* another byte count than the declared one), no normal record stands for
\* that candidate in what extract_files returns.  (Stated for BitSources
\* that hold the header.)
C5_DecodeFailureSurfaced ==
  HoldsHeader =>
    \A r \in Records :
      r.is_compressed = 1 => (r.uncompress_ret = "Z_OK" /\ r.inflated_all)

\* C10: for every accepted candidate with encAlgo = 0, every payload size
\* and every payload content, extract_payload reads the payload buffer only
\* inside its allocation and the content length never wraps.  (Stated for
\* BitSources that hold the header.)
C10_PayloadAccessInBounds == HoldsHeader => ex_oob = FALSE

====
